---- MODULE Spec2Model ----
(***************************************************************************)
(* TagInput (src/src/components/ui/tag-input.tsx): a text-entry widget     *)
(* that turns typed or pasted text into an ordered list of tags.           *)
(*                                                                         *)
(* A string is modelled as a sequence of UTF-16 code units, so that the    *)
(* regular-expression scan, String.trim and Array.join are computed code   *)
(* unit by code unit.  A code unit is written as the one-character string  *)
(* it is, or, where TLA+ has no way to write it, as the name of its code   *)
(* point ("U+00A0").  A tag list is a sequence of such strings.            *)
(***************************************************************************)
EXTENDS Naturals, Sequences, FiniteSets

VARIABLES
    tags,               \* useState<string[]>(props.defaultValue)
    inputText,          \* useState("")
    deletionIsPending,  \* useState(false)
    hostValue,          \* the argument of the latest props.onValueChange call
    event               \* the event handled last, and whether it called onValueChange

vars == <<tags, inputText, deletionIsPending, hostValue, event>>

(***************************************************************************)
(* Bounds of the model.                                                    *)
(***************************************************************************)
MaxLen == 2       \* longest text of the input field in Spec
MaxTags == 2      \* longest tag list an event of Spec grows the list to
MaxRawLen == 5    \* longest raw text enumerated exhaustively in SpecParse

(***************************************************************************)
(* Characters.                                                             *)
(***************************************************************************)
\* The code units that \s of the pattern matches and that String.prototype.trim
\* strips: WhiteSpace and LineTerminator of ECMAScript.
WhiteSpace ==
    {"\t", "\n", "U+000B", "\f", "\r", " ", "U+00A0", "U+1680",
     "U+2000", "U+2001", "U+2002", "U+2003", "U+2004", "U+2005", "U+2006",
     "U+2007", "U+2008", "U+2009", "U+200A", "U+2028", "U+2029", "U+202F",
     "U+205F", "U+3000", "U+FEFF"}
Delimiters == {",", ";"} \cup WhiteSpace
Letters == {"a", "b"}

\* Variant: the semicolon left out of the character class.
IsDelimiterWithoutSemicolon(c) == c \in {","} \cup WhiteSpace

\* The character class [\s,;] of the pattern, and its complement [^\s,;].
IsDelimiter(c) == c \in Delimiters

RECURSIVE StringsUpTo(_, _)
StringsUpTo(chars, n) ==
    IF n = 0 THEN {<< >>}
    ELSE LET shorter == StringsUpTo(chars, n - 1)
         IN  shorter \cup {Append(s, c) : s \in {t \in shorter : Len(t) = n - 1}, c \in chars}

(***************************************************************************)
(* String and array helpers of the JavaScript runtime, as the handlers use *)
(* them.                                                                   *)
(***************************************************************************)
\* String.prototype.trim: drop leading and trailing white space.
RECURSIVE TrimStart(_)
TrimStart(s) ==
    IF s # << >> /\ Head(s) \in WhiteSpace THEN TrimStart(Tail(s)) ELSE s

RECURSIVE TrimEnd(_)
TrimEnd(s) ==
    IF s # << >> /\ s[Len(s)] \in WhiteSpace THEN TrimEnd(SubSeq(s, 1, Len(s) - 1)) ELSE s

Trim(s) == TrimEnd(TrimStart(s))

\* Array.prototype.includes
Includes(list, x) == \E i \in DOMAIN list : list[i] = x

\* [...new Set(list)]: the elements of list in order of first occurrence.
RECURSIVE UniqueFrom(_, _)
UniqueFrom(list, acc) ==
    IF list = << >> THEN acc
    ELSE UniqueFrom(Tail(list),
                    IF Includes(acc, Head(list)) THEN acc ELSE Append(acc, Head(list)))

\* Variant: the list spread without passing through a Set.
UniqueKeepsAll(list) == list

Unique(list) == UniqueFrom(list, << >>)

\* Variant: the filter test inverted, which keeps the clicked tag alone.
FilterOnly(list, tag) == SelectSeq(list, LAMBDA tagB : tagB = tag)

\* Array.prototype.filter((tagB) => tagB !== tag)
RECURSIVE FilterOut(_, _)
FilterOut(list, tag) ==
    IF list = << >> THEN << >>
    ELSE IF Head(list) = tag THEN FilterOut(Tail(list), tag)
         ELSE <<Head(list)>> \o FilterOut(Tail(list), tag)

\* Variant: slice(1), which drops the first element instead of the last.
SliceFirst(list) == IF list = << >> THEN << >> ELSE Tail(list)

\* tags.slice(0, tags.length - 1)
SliceLast(list) == SubSeq(list, 1, Len(list) - 1)

\* Variant: join(""), which puts nothing between the elements.
RECURSIVE JoinWithoutSeparator(_)
JoinWithoutSeparator(list) ==
    IF list = << >> THEN << >> ELSE Head(list) \o JoinWithoutSeparator(Tail(list))

\* Array.prototype.join(",")
RECURSIVE Join(_)
Join(list) ==
    IF list = << >> THEN << >>
    ELSE IF Len(list) = 1 THEN Head(list)
         ELSE Head(list) \o <<",">> \o Join(Tail(list))

(***************************************************************************)
(* text.replaceAll(/([^\s,;]+)(,|;|\s)/g, ...) of handleInputChange.       *)
(* The scan tries a match at position i: the longest run of non-delimiter  *)
(* characters, which must be non-empty and followed by one delimiter.  A   *)
(* match pushes the trimmed run onto newTags and is replaced by "", and    *)
(* the scan resumes after the delimiter; where nothing matches the         *)
(* character is kept and the scan moves one position on.                   *)
(***************************************************************************)
\* Variant: [^\s,;] without the +, a run of one character at most.
RunLengthOne(text, i) ==
    IF i > Len(text) \/ IsDelimiter(text[i]) THEN 0 ELSE 1

RECURSIVE RunLength(_, _)
RunLength(text, i) ==
    IF i > Len(text) \/ IsDelimiter(text[i]) THEN 0 ELSE 1 + RunLength(text, i + 1)

MatchAt(text, i) ==
    LET n == RunLength(text, i)
    IN  n >= 1 /\ i + n <= Len(text) /\ IsDelimiter(text[i + n])

RECURSIVE ReplaceAll(_, _, _, _)
ReplaceAll(text, i, newTags, newText) ==
    IF i > Len(text) THEN [newTags |-> newTags, newText |-> newText]
    ELSE IF MatchAt(text, i)
         THEN LET n == RunLength(text, i)
              IN  ReplaceAll(text, i + n + 1,
                             Append(newTags, Trim(SubSeq(text, i, i + n - 1))),
                             newText)
         ELSE ReplaceAll(text, i + 1, newTags, Append(newText, text[i]))

Scan(text) == ReplaceAll(text, 1, << >>, << >>)

(***************************************************************************)
(* Rendering.                                                              *)
(***************************************************************************)
\* isUpForDeletion of the i-th rendered TagItem
IsUpForDeletion(i) == (i = Len(tags)) /\ deletionIsPending

\* value of the hidden input
SerializedValue == Join(tags)

(***************************************************************************)
(* Events.                                                                 *)
(***************************************************************************)
Keys == {"Enter", "Backspace", "ArrowLeft"}

Event(op, key, text, notified) ==
    [op |-> op, key |-> key, text |-> text, notified |-> notified]

\* Variant: the host is handed the list as it was before the event.
OnValueChangeStale(value) == hostValue' = tags

\* props.onValueChange(value)
OnValueChange(value) == hostValue' = value

\* Variant: handleInputChange without setDeletionIsPending(false).
HandleInputChangeKeepsPending(text) ==
    LET scan == Scan(text)
        merged == Unique(tags \o scan.newTags)
    IN  /\ tags' = merged
        /\ inputText' = scan.newText
        /\ OnValueChange(merged)
        /\ event' = Event("change", "", text, TRUE)
        /\ UNCHANGED deletionIsPending

\* handleInputChange: e.target.value is the text of the field after the edit.
HandleInputChange(text) ==
    LET scan == Scan(text)
        merged == Unique(tags \o scan.newTags)
    IN  /\ tags' = merged
        /\ deletionIsPending' = FALSE
        /\ inputText' = scan.newText
        /\ OnValueChange(merged)
        /\ event' = Event("change", "", text, TRUE)

\* Variant: Enter adds any non-empty text, without the includes test.
EnterAcceptsAnyText(text) == text # << >>

\* The condition under which Enter adds the text as a tag.
EnterAccepts(text) == text # << >> /\ ~Includes(tags, Trim(text))

\* Variant: the new tag put in front of the list.
AddTagInFront(text) == Unique(<<Trim(text)>> \o tags)

\* [...new Set([...tags, text.trim()])]
AddTag(text) == Unique(Append(tags, Trim(text)))

\* Variant: Backspace intercepted whatever the text of the field.
BackspaceInterceptedAnyText(key, text) == key = "Backspace"

\* The condition under which Backspace is intercepted.
BackspaceIntercepted(key, text) == key = "Backspace" /\ text = << >>

\* handleKeyDown: e.currentTarget.value is the value of the controlled input,
\* which is inputText.  The Enter test and the Backspace test are two
\* successive if statements; no key passes both.
HandleKeyDown(key) ==
    LET text == inputText
    IN  IF key = "Enter" /\ EnterAccepts(text)
        THEN /\ tags' = AddTag(text)
             /\ inputText' = << >>
             /\ OnValueChange(AddTag(text))
             /\ event' = Event("key", key, text, TRUE)
             /\ UNCHANGED deletionIsPending
        ELSE IF BackspaceIntercepted(key, text)
        THEN IF deletionIsPending
             THEN /\ tags' = SliceLast(tags)
                  /\ OnValueChange(SliceLast(tags))
                  /\ deletionIsPending' = FALSE
                  /\ event' = Event("key", key, text, TRUE)
                  /\ UNCHANGED inputText
             ELSE /\ deletionIsPending' = TRUE
                  /\ event' = Event("key", key, text, FALSE)
                  /\ UNCHANGED <<tags, inputText, hostValue>>
        ELSE /\ event' = Event("key", key, text, FALSE)
             /\ UNCHANGED <<tags, inputText, deletionIsPending, hostValue>>

\* onDelete of the i-th rendered TagItem
OnDelete(i) ==
    LET tag == tags[i]
    IN  /\ tags' = FilterOut(tags, tag)
        /\ OnValueChange(FilterOut(tags, tag))
        /\ event' = Event("delete", "", tag, TRUE)
        /\ UNCHANGED <<inputText, deletionIsPending>>

(***************************************************************************)
(* Spec: the component driven by any sequence of events.                   *)
(***************************************************************************)
\* The characters of the texts of Spec: a letter, a delimiter that is no
\* white space, and a white-space character.
TextChars == {"a", ",", "\t"}

\* The texts a change event carries: e.target.value is any text, whatever
\* the field showed before (typing anywhere in it, pasting, replacing or
\* deleting a selection).
Texts == StringsUpTo(TextChars, MaxLen)

\* The tags of the default value the form passes: ["a", "b", "c"].
DefaultTags == {<<"a">>, <<"b">>, <<"c">>}

RECURSIVE ListsUpTo(_, _)
ListsUpTo(S, n) ==
    IF n = 0 THEN {<< >>}
    ELSE LET shorter == ListsUpTo(S, n - 1)
         IN  shorter \cup {Append(l, x) : l \in {m \in shorter : Len(m) = n - 1}, x \in S}

NoDuplicates(list) == \A i, j \in DOMAIN list : list[i] = list[j] => i = j

\* Valid default values: distinct, trimmed, non-empty tags; the form's own
\* default value [a, b, c] is one of them.
DefaultValues ==
    {l \in ListsUpTo(DefaultTags, Cardinality(DefaultTags)) : NoDuplicates(l)}

Init ==
    /\ tags \in DefaultValues
    /\ inputText = << >>
    /\ deletionIsPending = FALSE
    /\ hostValue = tags
    /\ event = Event("init", "", << >>, FALSE)

\* onChange of the controlled input fires when the value of the field
\* differs from the value it shows (inputText), with any new value.
\* The list is explored growing up to MaxTags tags; a longer default value
\* is explored without growth.
TextChange ==
    \E text \in Texts \ {inputText} :
        /\ LET n == Len(Unique(tags \o Scan(text).newTags))
           IN  n <= MaxTags \/ n <= Len(tags)
        /\ HandleInputChange(text)

KeyDown ==
    \E key \in Keys :
        /\ Len(tags) < MaxTags \/ ~(key = "Enter" /\ EnterAccepts(inputText))
        /\ HandleKeyDown(key)

RemoveTag == \E i \in DOMAIN tags : OnDelete(i)

Next == TextChange \/ KeyDown \/ RemoveTag

Spec == Init /\ [][Next]_vars

(***************************************************************************)
(* SpecParse: handleInputChange applied once to every raw text of a        *)
(* bounded set, from each of a few tag lists, in either Backspace state.   *)
(***************************************************************************)
ParseChars == Letters \cup {",", ";", " ", "\t"}

\* "alpha, beta;gamma " and "alpha, be"
ExampleFull ==
    <<"a", "l", "p", "h", "a", ",", " ", "b", "e", "t", "a", ";",
      "g", "a", "m", "m", "a", " ">>
ExamplePartial == <<"a", "l", "p", "h", "a", ",", " ", "b", "e">>

\* A pasted text with a no-break space, a line feed and a BOM as delimiters.
ExampleWhiteSpace == <<"a", "U+00A0", "\n", "b", "\n", "U+FEFF", "c">>

ParseTexts ==
    StringsUpTo(ParseChars, MaxRawLen)
        \cup {ExampleFull, ExamplePartial, ExampleWhiteSpace}

ParseLists == {<< >>, <<<<"a">>>>, <<<<"b">>, <<"a">>>>, <<<<"a">>, <<"b">>, <<"c">>>>}

InitParse ==
    /\ tags \in ParseLists
    /\ inputText = << >>
    /\ deletionIsPending \in BOOLEAN
    /\ hostValue = tags
    /\ event = Event("init", "", << >>, FALSE)

ParseOnce ==
    /\ event.op = "init"
    /\ \E text \in ParseTexts : HandleInputChange(text)

SpecParse == InitParse /\ [][ParseOnce]_vars

(***************************************************************************)
(* SpecRemove: tag clicks alone, from any default value, one with repeated *)
(* tags included (the component does not validate defaultValue).           *)
(***************************************************************************)
MaxRemoveLen == 4   \* longest default value of SpecRemove

RemoveLists == ListsUpTo(DefaultTags \cup {<<"c">>}, MaxRemoveLen)

InitRemove ==
    /\ tags \in RemoveLists
    /\ inputText = << >>
    /\ deletionIsPending = FALSE
    /\ hostValue = tags
    /\ event = Event("init", "", << >>, FALSE)

SpecRemove == InitRemove /\ [][RemoveTag]_vars

(***************************************************************************)
(* Definitions used to state the properties.                               *)
(***************************************************************************)
Range(list) == {list[i] : i \in DOMAIN list}

IsPrefix(p, list) == Len(p) <= Len(list) /\ \A i \in DOMAIN p : list[i] = p[i]

WithoutLast(old, new) ==
    /\ Len(new) = (IF old = << >> THEN 0 ELSE Len(old) - 1)
    /\ \A i \in DOMAIN new : new[i] = old[i]

FirstIndex(list, x) == CHOOSE i \in DOMAIN list : list[i] = x /\ \A j \in 1..(i - 1) : list[j] # x

\* r lists each element of list once, in order of first occurrence in list.
IsOrderedUnion(r, list) ==
    /\ NoDuplicates(r)
    /\ Range(r) = Range(list)
    /\ \A i, j \in DOMAIN r : i < j => FirstIndex(list, r[i]) < FirstIndex(list, r[j])

\* The left-to-right tokenizer: accumulate a candidate token; on a delimiter
\* emit the token if it is non-empty and reset the accumulator.  What is
\* accumulated at the end of the input is the unterminated rest.
TokenDelimiters == {",", ";"} \cup WhiteSpace

RECURSIVE Tokenize(_, _, _, _)
Tokenize(text, i, token, emitted) ==
    IF i > Len(text) THEN [tokens |-> emitted, rest |-> token]
    ELSE IF text[i] \in TokenDelimiters
         THEN Tokenize(text, i + 1, << >>,
                       IF token # << >> THEN Append(emitted, token) ELSE emitted)
         ELSE Tokenize(text, i + 1, Append(token, text[i]), emitted)

Tokens(text) == Tokenize(text, 1, << >>, << >>).tokens
UnterminatedRest(text) == Tokenize(text, 1, << >>, << >>).rest

IsKeyDown(e, key) == e.op = "key" /\ e.key = key

(***************************************************************************)
(* C1: in every reachable state the tag list has no two equal elements and *)
(* no empty-string element.                                                *)
(***************************************************************************)
C1_NoDuplicateNoEmptyTag == NoDuplicates(tags) /\ ~Includes(tags, << >>)

(***************************************************************************)
(* C2: a text change leaves the tag list duplicate-free, keeps the old     *)
(* list as a prefix of the new one, and places the new tags behind it in   *)
(* the order in which the text first yields them.                          *)
(***************************************************************************)
C2_TextChangeKeepsOrder ==
    [][event'.op = "change" =>
          /\ NoDuplicates(tags')
          /\ IsPrefix(tags, tags')
          /\ \A i \in (Len(tags) + 1)..Len(tags') :
                /\ Includes(Tokens(event'.text), tags'[i])
                /\ \A j \in (i + 1)..Len(tags') :
                      FirstIndex(Tokens(event'.text), tags'[i])
                          < FirstIndex(Tokens(event'.text), tags'[j])]_vars

\* "b,aa," on the list [a] has put b and aa behind a, in that order.
C2_Witness ==
    /\ event.op = "change"
    /\ event.text = <<"b", ",", "a", "a", ",">>
    /\ tags = << <<"a">>, <<"b">>, <<"a", "a">> >>

(***************************************************************************)
(* C3: Enter on an empty or whitespace-only buffer changes neither the tag *)
(* list nor the buffer and does not notify the host.                       *)
(***************************************************************************)
C3_EnterOnBlankIsNoOp ==
    [][IsKeyDown(event', "Enter") /\ Trim(inputText) = << >> =>
          /\ tags' = tags
          /\ inputText' = inputText
          /\ ~event'.notified]_vars

(***************************************************************************)
(* C4: with the buffer empty, a Backspace in the idle state leaves the tag *)
(* list unchanged, sets deletionIsPending and flags the last tag and no    *)
(* other; a Backspace in the pending state removes the last tag, notifies  *)
(* the host with the shortened list and returns to the idle state.         *)
(***************************************************************************)
C4_TwoPhaseDelete ==
    [][IsKeyDown(event', "Backspace") /\ inputText = << >> =>
          IF ~deletionIsPending
          THEN /\ tags' = tags
               /\ deletionIsPending'
               /\ inputText' = << >>
               /\ ~event'.notified
               /\ \A i \in DOMAIN tags' : IsUpForDeletion(i)' <=> (i = Len(tags'))
          ELSE /\ WithoutLast(tags, tags')
               /\ event'.notified
               /\ hostValue' = tags'
               /\ ~deletionIsPending'
               /\ \A i \in DOMAIN tags' : ~IsUpForDeletion(i)']_vars

\* The second Backspace has removed the last of two or more tags.
C4_Witness ==
    /\ IsKeyDown(event, "Backspace")
    /\ event.notified
    /\ ~deletionIsPending
    /\ Len(tags) >= 1

(***************************************************************************)
(* C5: every key-down whose key is not Backspace resets deletionIsPending  *)
(* to false.                                                               *)
(***************************************************************************)
C5_OtherKeyResetsPending ==
    [][event'.op = "key" /\ event'.key # "Backspace" => ~deletionIsPending']_vars

(***************************************************************************)
(* C6: removing a tag by a click while deletion is pending returns to the  *)
(* idle state: deletionIsPending is false and no tag is flagged.           *)
(***************************************************************************)
C6_RemoveTagResetsPending ==
    [][event'.op = "delete" /\ deletionIsPending =>
          /\ ~deletionIsPending'
          /\ \A i \in DOMAIN tags' : ~IsUpForDeletion(i)']_vars

(***************************************************************************)
(* C7: a text change sets the tag list to the order-preserving             *)
(* deduplication of the old list followed by the tokens of the left-to-    *)
(* right tokenizer.                                                        *)
(***************************************************************************)
C7_TagsAreOrderedUnionOfTokens ==
    [][event'.op = "change" =>
          IsOrderedUnion(tags', tags \o Tokens(event'.text))]_vars

\* "alpha, beta;gamma " on the empty list has given [alpha, beta, gamma].
C7_Witness ==
    /\ event.op = "change"
    /\ event.text = ExampleFull
    /\ tags = << <<"a", "l", "p", "h", "a">>, <<"b", "e", "t", "a">>,
                 <<"g", "a", "m", "m", "a">> >>

(***************************************************************************)
(* C8: after a text change the buffer is exactly the unterminated text at  *)
(* the end of the raw text.                                                *)
(***************************************************************************)
C8_BufferIsUnterminatedRest ==
    event.op = "change" => inputText = UnterminatedRest(event.text)

(***************************************************************************)
(* C9: Enter with a buffer whose trimmed text is non-empty and not in the  *)
(* tag list appends the trimmed text as the last tag, clears the buffer    *)
(* and notifies the host with the new list.                                *)
(***************************************************************************)
C9_EnterAppendsTrimmedText ==
    [][/\ IsKeyDown(event', "Enter")
       /\ Trim(inputText) # << >>
       /\ ~Includes(tags, Trim(inputText))
       => /\ tags' = Append(tags, Trim(inputText))
          /\ inputText' = << >>
          /\ event'.notified
          /\ hostValue' = tags']_vars

\* Enter has appended the trimmed text of an untrimmed buffer behind a tag.
C9_Witness ==
    /\ IsKeyDown(event, "Enter")
    /\ event.notified
    /\ Trim(event.text) # event.text
    /\ Trim(event.text) # << >>
    /\ Len(tags) >= 2
    /\ tags[Len(tags)] = Trim(event.text)
    /\ inputText = << >>

(***************************************************************************)
(* C10: Enter with a buffer whose trimmed text is already a tag changes    *)
(* nothing and does not notify the host, so the tag occurs exactly once.   *)
(***************************************************************************)
C10_EnterOnDuplicateIsNoOp ==
    [][IsKeyDown(event', "Enter") /\ Includes(tags, Trim(inputText)) =>
          /\ UNCHANGED <<tags, inputText, deletionIsPending, hostValue>>
          /\ ~event'.notified
          /\ Cardinality({i \in DOMAIN tags' : tags'[i] = Trim(inputText)}) = 1]_vars

\* Enter was pressed on a non-empty buffer whose trimmed text is a tag.
C10_Witness ==
    /\ IsKeyDown(event, "Enter")
    /\ ~event.notified
    /\ event.text # << >>
    /\ inputText = event.text
    /\ Includes(tags, Trim(event.text))

\* sub is list without some of its elements, the others in their order.
RECURSIVE IsSubsequence(_, _)
IsSubsequence(sub, list) ==
    IF sub = << >> THEN TRUE
    ELSE IF list = << >> THEN FALSE
    ELSE IF Head(sub) = Head(list) THEN IsSubsequence(Tail(sub), Tail(list))
    ELSE IsSubsequence(sub, Tail(list))

Occurrences(list, x) == Cardinality({i \in DOMAIN list : list[i] = x})

(***************************************************************************)
(* C11: a click on a tag x removes every element equal to x, keeps the     *)
(* other elements in their order and notifies the host with that list;     *)
(* removing x from a list without x, as the result is, changes nothing.    *)
(***************************************************************************)
C11_RemoveTagRemovesAllEqual ==
    [][event'.op = "delete" =>
          LET x == event'.text
          IN  /\ ~Includes(tags', x)
              /\ IsSubsequence(tags', tags)
              /\ \A y \in Range(tags) \ {x} : Occurrences(tags', y) = Occurrences(tags, y)
              /\ event'.notified
              /\ hostValue' = tags'
              /\ FilterOut(tags', x) = tags']_vars

\* A click has removed two equal tags at once and kept a third tag.
C11_Witness ==
    /\ event.op = "delete"
    /\ event.text = <<"a">>
    /\ tags = << <<"b">> >>
    /\ hostValue = tags

(***************************************************************************)
(* C12: a text change whose raw text holds no committable token (empty,    *)
(* delimiters only, or one typed character) leaves a valid tag list        *)
(* unchanged and sets deletionIsPending to false.                          *)
(***************************************************************************)
C12_NoTokenTextChangeKeepsTags ==
    [][event'.op = "change" /\ Tokens(event'.text) = << >> /\ NoDuplicates(tags) =>
          /\ tags' = tags
          /\ ~deletionIsPending']_vars

\* One character was typed while the list was [a, b, c].
C12_Witness ==
    /\ event.op = "change"
    /\ event.text = <<"b">>
    /\ tags = << <<"a">>, <<"b">>, <<"c">> >>
    /\ ~deletionIsPending

(***************************************************************************)
(* C13: a Backspace key-down on a non-empty buffer changes neither the tag *)
(* list nor deletionIsPending and does not notify the host.                *)
(***************************************************************************)
C13_BackspaceOnTextNotIntercepted ==
    [][IsKeyDown(event', "Backspace") /\ inputText # << >> =>
          /\ UNCHANGED <<tags, inputText, deletionIsPending, hostValue>>
          /\ ~event'.notified]_vars

\* Backspace was pressed on a non-empty buffer with tags in the list.
C13_Witness ==
    /\ IsKeyDown(event, "Backspace")
    /\ event.text # << >>
    /\ inputText = event.text
    /\ tags # << >>

(***************************************************************************)
(* C14: in every reachable state the buffer holds no delimiter character   *)
(* followed by non-delimiter text.                                         *)
(***************************************************************************)
C14_NoDelimiterBeforeText ==
    ~\E i, j \in DOMAIN inputText :
        i < j /\ inputText[i] \in TokenDelimiters /\ inputText[j] \notin TokenDelimiters

(***************************************************************************)
(* C15: an event that changes the tag list calls onValueChange with the    *)
(* resulting list, so the list the host was last handed equals the tag     *)
(* list after every event.                                                 *)
(***************************************************************************)
C15_HostHoldsTagList ==
    [][/\ tags' # tags => event'.notified
       /\ event'.notified => hostValue' = tags'
       /\ hostValue' = tags']_vars

\* A click has shortened the list and the host holds the shortened list.
C15_Witness ==
    /\ event.op = "delete"
    /\ event.notified
    /\ tags # << >>
    /\ ~Includes(tags, event.text)
    /\ hostValue = tags

(***************************************************************************)
(* C16: the serialized value is the tags in order with one comma between   *)
(* neighbours, and the empty string for the empty list.                    *)
(***************************************************************************)
RECURSIVE TagOffset(_)
TagOffset(i) == IF i = 1 THEN 0 ELSE TagOffset(i - 1) + Len(tags[i - 1]) + 1

C16_SerializedIsCommaJoined ==
    LET value == SerializedValue
        n == Len(tags)
    IN  /\ Len(value) = (IF n = 0 THEN 0 ELSE TagOffset(n) + Len(tags[n]))
        /\ \A i \in 1..n :
              /\ \A k \in 1..Len(tags[i]) : value[TagOffset(i) + k] = tags[i][k]
              /\ i < n => value[TagOffset(i) + Len(tags[i]) + 1] = ","

\* After Enter added "aa" behind "b" the value is "b,aa".
C16_Witness ==
    /\ IsKeyDown(event, "Enter")
    /\ tags = << <<"b">>, <<"a", "a">> >>
    /\ SerializedValue = <<"b", ",", "a", "a">>

(***************************************************************************)
(* C17: deletionIsPending implies an empty buffer, and an Enter that added *)
(* a tag was not pressed while deletionIsPending was true.                 *)
(***************************************************************************)
C17_PendingImpliesEmptyBuffer ==
    /\ deletionIsPending => inputText = << >>
    /\ IsKeyDown(event, "Enter") /\ event.notified => ~deletionIsPending

\* Deletion is pending on a non-empty list after text had been typed.
C17_Witness ==
    /\ deletionIsPending
    /\ inputText = << >>
    /\ IsKeyDown(event, "Backspace")
    /\ Includes(tags, <<"a", "a">>)

(***************************************************************************)
(* C18: no tag contains a comma, a semicolon or a white-space character.   *)
(***************************************************************************)
C18_NoDelimiterInTag ==
    \A i \in DOMAIN tags : \A k \in DOMAIN tags[i] : tags[i][k] \notin TokenDelimiters

(***************************************************************************)
(* C19: after a text change the buffer holds no non-delimiter character    *)
(* immediately followed by a delimiter: it is a run of delimiters followed *)
(* by a run of non-delimiter characters, either possibly empty.            *)
(***************************************************************************)
C19_BufferHasNoCommittableToken ==
    event.op = "change" =>
        /\ \A i \in 1..(Len(inputText) - 1) :
              ~(inputText[i] \notin TokenDelimiters /\ inputText[i + 1] \in TokenDelimiters)
        /\ \E m \in 0..Len(inputText) :
              /\ \A i \in 1..m : inputText[i] \in TokenDelimiters
              /\ \A i \in (m + 1)..Len(inputText) : inputText[i] \notin TokenDelimiters

\* "alpha, be" has left the white space and the unterminated text.
C19_Witness ==
    /\ event.op = "change"
    /\ event.text = ExamplePartial
    /\ inputText = <<" ", "b", "e">>

====
